---- MODULE Spec2Model ----
(***************************************************************************)
(* chksum: parallel generation and verification of checksum manifests.     *)
(* Model of src/src/main.rs (generate_checksums, verify_checksums, main,   *)
(* Exclusion) and src/src/checksum.rs (guess_algorithm, str_to_bytes,      *)
(* calculate_checksum, verify_checksum).                                   *)
(*                                                                         *)
(* Strings (String, PathBuf, manifest text) are sequences of byte codes.   *)
(***************************************************************************)
EXTENDS Integers, Sequences, FiniteSets, TLC

(***************************************************************************)
(* Bounds of the model.                                                    *)
(***************************************************************************)
\* num_threads ranges over 1..MaxThreads
MaxThreads == 2
\* at most this many nodes of the tree are unreadable (permission denied)
MaxUnreadable == 1
\* at most this many files are modified between generation and verification
MaxMutations == 1
\* at most this many files are removed while a generation run is under way
MaxVanished == 1
\* a hand-written manifest given to verification has at most this many lines
MaxLines == 2
\* guess_algorithm is called on its own with the sizes 0..MaxHashSize
MaxHashSize == 65
\* digests of the file contents numbered 0..MaxContent are encoded and decoded
MaxContent == 8

(***************************************************************************)
(* Byte codes the program names.                                           *)
(***************************************************************************)
\* std::path::MAIN_SEPARATOR
Slash == 47
\* the "." of dot_prefix
Dot == 46
\* the sentinel "-"
Dash == 45
\* the separator of "{}  {}\n"
Space == 32
\* the line terminator of "{}  {}\n"
Newline == 10

(***************************************************************************)
(* Sequence helpers.                                                       *)
(***************************************************************************)
Min(a, b) == IF a < b THEN a ELSE b

Drop(s, n) == SubSeq(s, n + 1, Len(s))

Take(s, n) == SubSeq(s, 1, Min(n, Len(s)))

RECURSIVE Concat(_)
Concat(ss) ==
    IF ss = <<>> THEN <<>>
    ELSE IF Len(ss) = 1 THEN ss[1]
    ELSE Concat(SubSeq(ss, 1, Len(ss) \div 2)) \o Concat(SubSeq(ss, Len(ss) \div 2 + 1, Len(ss)))

RECURSIVE SeqCount(_, _)
SeqCount(s, x) ==
    IF s = <<>> THEN 0
    ELSE (IF Head(s) = x THEN 1 ELSE 0) + SeqCount(Tail(s), x)

Range(s) == {s[i] : i \in 1..Len(s)}

\* the pieces of s between occurrences of sep (empty pieces included)
RECURSIVE SplitOn(_, _)
SplitOn(s, sep) ==
    IF \A i \in 1..Len(s) : s[i] # sep THEN <<s>>
    ELSE LET k == CHOOSE i \in 1..Len(s) :
                     s[i] = sep /\ \A j \in 1..(i - 1) : s[j] # sep
         IN  <<SubSeq(s, 1, k - 1)>> \o SplitOn(Drop(s, k), sep)

RECURSIVE JoinWith(_, _)
JoinWith(ss, sep) ==
    IF ss = <<>> THEN <<>>
    ELSE IF Len(ss) = 1 THEN ss[1]
    ELSE ss[1] \o <<sep>> \o JoinWith(Tail(ss), sep)

\* slice::cmp on bytes: -1, 0 or 1
RECURSIVE BytesCmp(_, _)
BytesCmp(s, t) ==
    IF s = <<>> /\ t = <<>> THEN 0
    ELSE IF s = <<>> THEN -1
    ELSE IF t = <<>> THEN 1
    ELSE IF Head(s) < Head(t) THEN -1
    ELSE IF Head(s) > Head(t) THEN 1
    ELSE BytesCmp(Tail(s), Tail(t))

(***************************************************************************)
(* std::path as main.rs uses it.                                           *)
(***************************************************************************)
CurDirComp == <<Dot>>

\* Path::components: separators collapse, "." is dropped except in front
Components(p) ==
    LET raw == SplitOn(p, Slash)
        lead == IF raw[1] = CurDirComp THEN <<CurDirComp>> ELSE <<>>
        RECURSIVE Normals(_)
        Normals(cs) ==
            IF cs = <<>> THEN <<>>
            ELSE (IF Head(cs) = <<>> \/ Head(cs) = CurDirComp THEN <<>> ELSE <<Head(cs)>>)
                 \o Normals(Tail(cs))
    IN  lead \o Normals(raw)

\* derived PartialOrd of enum Component: CurDir < ParentDir < Normal(bytes)
ComponentRank(c) == IF c = CurDirComp THEN 2 ELSE IF c = <<Dot, Dot>> THEN 3 ELSE 4

ComponentCmp(c, d) ==
    IF ComponentRank(c) < ComponentRank(d) THEN -1
    ELSE IF ComponentRank(c) > ComponentRank(d) THEN 1
    ELSE IF ComponentRank(c) = 4 THEN BytesCmp(c, d)
    ELSE 0

RECURSIVE CompareComponents(_, _)
CompareComponents(cs, ds) ==
    IF cs = <<>> /\ ds = <<>> THEN 0
    ELSE IF cs = <<>> THEN -1
    ELSE IF ds = <<>> THEN 1
    ELSE IF ComponentCmp(Head(cs), Head(ds)) # 0 THEN ComponentCmp(Head(cs), Head(ds))
    ELSE CompareComponents(Tail(cs), Tail(ds))

\* PathBuf::partial_cmp, the comparator of results.sort_by
PathCmpBytewise(p, q) == BytesCmp(p, q)
PathCmp(p, q) == CompareComponents(Components(p), Components(q))

\* path.strip_prefix("./").unwrap_or(&path): the rest of the string after a
\* leading CurDir component and the separators that follow it
RECURSIVE DropSlashes(_)
DropSlashes(s) == IF s # <<>> /\ Head(s) = Slash THEN DropSlashes(Tail(s)) ELSE s

StripDotPrefix(p) ==
    IF Components(p) # <<>> /\ Components(p)[1] = CurDirComp
    THEN DropSlashes(Drop(p, 1))
    ELSE p

\* PathBuf::join of a directory path and a relative path
PathJoin(dir, rel) ==
    IF dir = <<>> THEN rel
    ELSE IF dir[Len(dir)] = Slash THEN dir \o rel
    ELSE dir \o <<Slash>> \o rel

(***************************************************************************)
(* Results: Ok(v) and Err(e).                                              *)
(***************************************************************************)
Ok(v) == [ok |-> TRUE, val |-> v]

Err(e) == [ok |-> FALSE, err |-> e]

(***************************************************************************)
(* checksum.rs                                                             *)
(***************************************************************************)
Algorithms == {"MD5", "SHA1", "SHA224", "SHA256", "SHA384", "SHA512"}

\* output size in bytes of the hasher get_hasher returns
HashSize(algorithm) ==
    CASE algorithm = "MD5" -> 16
      [] algorithm = "SHA1" -> 20
      [] algorithm = "SHA224" -> 28
      [] algorithm = "SHA256" -> 32
      [] algorithm = "SHA384" -> 48
      [] algorithm = "SHA512" -> 64

\* hasher.update(..)/finalize(): a digest of HashSize bytes, different for
\* different contents. Contents are numbered below 65536; the odd bytes
\* carry the low byte of the number and the even bytes the high byte (37 is
\* odd, so each is carried injectively).
Digest(content, algorithm) ==
    [i \in 1..HashSize(algorithm) |->
        ((IF i % 2 = 1 THEN content % 256 ELSE content \div 256) * 37
            + i * 11 + HashSize(algorithm)) % 256]

\* guess_algorithm taking the number of hex digits for the number of bytes
guess_algorithm_by_hex_len(hash_size) ==
    CASE hash_size = 32 -> Ok("MD5")
      [] hash_size = 40 -> Ok("SHA1")
      [] hash_size = 56 -> Ok("SHA224")
      [] hash_size = 64 -> Ok("SHA256")
      [] OTHER -> Err("UnknownAlgorithmError")
guess_algorithm(hash_size) ==
    CASE hash_size = 16 -> Ok("MD5")
      [] hash_size = 20 -> Ok("SHA1")
      [] hash_size = 28 -> Ok("SHA224")
      [] hash_size = 32 -> Ok("SHA256")
      [] hash_size = 48 -> Ok("SHA384")
      [] hash_size = 64 -> Ok("SHA512")
      [] OTHER -> Err("UnknownAlgorithmError")

\* format!("{:02x}", b)
HexDigitChar(n) == IF n < 10 THEN 48 + n ELSE 87 + n

\* format!("{:x}", b): no leading zero
HexOfByteNoPad(b) ==
    IF b < 16 THEN <<HexDigitChar(b)>> ELSE <<HexDigitChar(b \div 16), HexDigitChar(b % 16)>>
HexOfByte(b) == <<HexDigitChar(b \div 16), HexDigitChar(b % 16)>>

\* join(checksum.into_iter().map(|b| format!("{:02x}", b)), "")
ToHex(bytes) == Concat([i \in 1..Len(bytes) |-> HexOfByte(bytes[i])])

\* char::to_digit(16): -1 when c is no hex digit
HexDigitValue(c) ==
    IF c \in 48..57 THEN c - 48
    ELSE IF c \in 97..102 THEN c - 87
    ELSE IF c \in 65..70 THEN c - 55
    ELSE -1

\* u8::from_str_radix(pair, 16) on a two-byte slice: an optional leading '+'
\* (43), then hex digits; -1 stands for Err(ParseIntError)
FromStrRadix16(pair) ==
    IF pair[1] = 43
    THEN HexDigitValue(pair[2])
    ELSE IF HexDigitValue(pair[1]) < 0 \/ HexDigitValue(pair[2]) < 0 THEN -1
    ELSE 16 * HexDigitValue(pair[1]) + HexDigitValue(pair[2])

\* what a call that panics is modelled to give: it does not return, the
\* thread unwinds
Panic == [ok |-> FALSE, err |-> "panic"]

\* bytes 128..191 continue a UTF-8 character
IsContinuation(c) == c \in 128..191

\* str::is_char_boundary(i), i counted from 0
IsCharBoundary(s, i) == i = 0 \/ i = Len(s) \/ ~IsContinuation(s[i + 1])

\* the loop takes the pairs in order: &s[idx..idx + 2] panics when an end of
\* the slice is inside a character, from_str_radix fails on a pair that is
\* no number
str_to_bytes(s) ==
    IF (Len(s) \div 2) * 2 # Len(s) THEN Err("InvalidHashValue")
    ELSE LET n == Len(s) \div 2
             sliced == [k \in 1..n |->
                           IsCharBoundary(s, 2 * k - 2) /\ IsCharBoundary(s, 2 * k)]
             buf == [k \in 1..n |-> FromStrRadix16(SubSeq(s, 2 * k - 1, 2 * k))]
             bad == {k \in 1..n : ~sliced[k] \/ buf[k] < 0}
         IN  IF bad = {} THEN Ok(buf)
             ELSE LET first == CHOOSE k \in bad : \A j \in bad : k <= j
                  IN  IF ~sliced[first] THEN Panic ELSE Err("InvalidHashValue")

(***************************************************************************)
(* The file system the program runs on: a working directory holding the    *)
(* directory "a" with the files "a/x" and "a/y", the file "a c" (its name  *)
(* has a space) and the manifest "m". Nodes are named by their canonical   *)
(* path below the working directory; "" is the working directory itself.   *)
(* A file system value fs has fs.present (the files that exist),           *)
(* fs.content (the number of each file's content, 0 for an empty file) and *)
(* fs.locked (the nodes no permission allows to open).                     *)
(***************************************************************************)
P_cwd == <<>>

P_dot == <<Dot>>

P_a == <<97>>

P_dot_a == <<Dot, Slash, 97>>

P_a_dot == <<97, Slash, Dot>>

P_ax == <<97, Slash, 120>>

P_dot_ax == <<Dot, Slash, 97, Slash, 120>>

P_ay == <<97, Slash, 121>>

P_a_c == <<97, Space, 99>>

P_m == <<109>>

P_zz == <<122, 122>>

P_dash == <<Dash>>

DirNodes == {P_cwd, P_a}

FileNodes == {P_ax, P_ay, P_a_c, P_m}

Nodes == DirNodes \cup FileNodes

\* the node a path names, were it to exist: the path's Normal components
Resolve(p) ==
    LET cs == Components(p)
    IN  JoinWith(IF cs # <<>> /\ cs[1] = CurDirComp THEN Tail(cs) ELSE cs, Slash)

\* Path::is_dir, Path::is_file
IsDir(fs, p) == Resolve(p) \in DirNodes

IsFile(fs, p) == Resolve(p) \in fs.present

Exists(fs, p) == IsDir(fs, p) \/ IsFile(fs, p)

\* Path::canonicalize: Ok(canonical path) or Err when nothing is there
Canonicalize(fs, p) ==
    IF Exists(fs, p) THEN Ok(Resolve(p)) ELSE Err("NotFound")

\* the directory a node lies in, and the node's file name
ParentOf(n) ==
    LET cs == SplitOn(n, Slash)
    IN  JoinWith(SubSeq(cs, 1, Len(cs) - 1), Slash)

FileName(n) ==
    LET cs == SplitOn(n, Slash)
    IN  cs[Len(cs)]

\* read_dir(d): the existing nodes directly in directory d
Children(fs, d) ==
    {n \in (DirNodes \ {P_cwd}) \cup fs.present : ParentOf(n) = d}

\* calculate_checksum: File::open and the read loop fail on a missing or
\* unreadable file and on a directory
calculate_checksum(fs, path, algorithm) ==
    IF IsFile(fs, path) /\ Resolve(path) \notin fs.locked
    THEN Ok(Digest(fs.content[Resolve(path)], algorithm))
    ELSE Err("Io")

\* Option<Algorithm>::None
None == "None"

\* verify_checksum: guess_algorithm(..)? is evaluated before unwrap_or looks
\* at the explicit algorithm; str_to_bytes(..)? before calculated?
verify_checksum(fs, path, checksum, algorithm) ==
    LET guessed == guess_algorithm(Len(checksum) \div 2)
    IN  IF ~guessed.ok THEN Err(guessed.err)
        ELSE LET alg == IF algorithm # None THEN algorithm ELSE guessed.val
                 calculated == calculate_checksum(fs, path, alg)
                 decoded == str_to_bytes(checksum)
             IN  IF ~decoded.ok THEN Err(decoded.err)
                 ELSE IF ~calculated.ok THEN Err(calculated.err)
                 ELSE Ok(<<path, decoded.val = calculated.val>>)

\* output_checksum
output_checksum(fs, path, algorithm) ==
    IF IsDir(fs, path) \/ ~IsFile(fs, path) THEN Err("InvalidFileError")
    ELSE LET c == calculate_checksum(fs, path, algorithm)
         IN  IF ~c.ok THEN Err(c.err) ELSE Ok(<<path, c.val>>)

(***************************************************************************)
(* Exclusion                                                               *)
(***************************************************************************)
RECURSIVE Unique(_)
Unique(s) ==
    IF s = <<>> THEN <<>>
    ELSE LET front == Unique(SubSeq(s, 1, Len(s) - 1))
         IN  IF s[Len(s)] \in Range(front) THEN front ELSE Append(front, s[Len(s)])

\* Exclusion::new: filter_map over excludes, then unique()
RECURSIVE ExclusionCanonicals(_, _, _)
ExclusionCanonicals(fs, excludes, checksum_file) ==
    IF excludes = <<>> THEN <<>>
    ELSE LET p == Head(excludes)
             c == IF p = P_dash
                  THEN (IF checksum_file = P_dash THEN Err("None")
                        ELSE Canonicalize(fs, checksum_file))
                  ELSE Canonicalize(fs, p)
         IN  (IF c.ok THEN <<c.val>> ELSE <<>>)
             \o ExclusionCanonicals(fs, Tail(excludes), checksum_file)

ExclusionNew(fs, excludes, checksum_file) ==
    Unique(ExclusionCanonicals(fs, excludes, checksum_file))

\* is_excluded as prefix matching: a path below an excluded directory counts
is_excluded_by_prefix(e, fs, path) ==
    LET c == Canonicalize(fs, path)
    IN  IF ~c.ok THEN FALSE
        ELSE \E i \in 1..Len(e) :
                \E k \in 0..Len(c.val) :
                    e[i] = SubSeq(c.val, 1, k) /\ (k = Len(c.val) \/ c.val[k + 1] = Slash)
\* Exclusion::is_excluded
is_excluded(e, fs, path) ==
    LET c == Canonicalize(fs, path)
    IN  IF ~c.ok THEN FALSE ELSE \E i \in 1..Len(e) : e[i] = c.val

(***************************************************************************)
(* Manifest text.                                                          *)
(***************************************************************************)
\* format!("{}  {}\n", e.1, e.0.display())
FormatLine(checksum_str, path) == checksum_str \o <<Space, Space>> \o path \o <<Newline>>

\* BufReader::lines: the text cut at each newline, terminators removed
Lines(text) ==
    LET parts == SplitOn(text, Newline)
    IN  IF parts[Len(parts)] = <<>> THEN SubSeq(parts, 1, Len(parts) - 1) ELSE parts

\* lines() yields Err(InvalidData) for a line that is not UTF-8. The
\* characters of the model are ASCII or two bytes long: a byte 194..223 and a
\* continuation byte
IsUtf8(line) ==
    \A i \in 1..Len(line) :
        \/ line[i] < 128
        \/ line[i] \in 194..223 /\ i < Len(line) /\ IsContinuation(line[i + 1])
        \/ IsContinuation(line[i]) /\ i > 1 /\ line[i - 1] \in 194..223

\* char::is_whitespace on the bytes the model uses
IsWhitespace(c) == c \in {9, 10, 11, 12, 13, Space}

\* line.split_whitespace(): the maximal runs of non-whitespace bytes
RECURSIVE SplitWhitespace(_)
SplitWhitespace(line) ==
    IF line = <<>> THEN <<>>
    ELSE IF IsWhitespace(Head(line)) THEN SplitWhitespace(Tail(line))
    ELSE LET n == IF \E i \in 1..Len(line) : IsWhitespace(line[i])
                  THEN (CHOOSE i \in 1..Len(line) :
                            IsWhitespace(line[i]) /\ \A j \in 1..(i - 1) : ~IsWhitespace(line[j])) - 1
                  ELSE Len(line)
         IN  <<SubSeq(line, 1, n)>> \o SplitWhitespace(Drop(line, n))

\* results.sort_by(cmp): a stable sort, here by insertion
RECURSIVE InsertSorted(_, _)
InsertSorted(sorted, e) ==
    IF sorted = <<>> THEN <<e>>
    ELSE IF PathCmp(e[1], sorted[Len(sorted)][1]) >= 0 THEN Append(sorted, e)
    ELSE Append(InsertSorted(SubSeq(sorted, 1, Len(sorted) - 1), e), sorted[Len(sorted)])

RECURSIVE SortByPath(_)
SortByPath(results) ==
    IF results = <<>> THEN <<>>
    ELSE InsertSorted(SortByPath(SubSeq(results, 1, Len(results) - 1)), results[Len(results)])

\* the bytes the write loop puts out for the sorted results
ManifestText(sorted) == Concat([i \in 1..Len(sorted) |-> FormatLine(sorted[i][2], sorted[i][1])])

\* the number of a file content that is this text: 0 for the empty file,
\* else a number no other file of the model has
ContentOfText(text) == IF text = <<>> THEN 0 ELSE 1000 + Len(text)

(***************************************************************************)
(* State.                                                                  *)
(***************************************************************************)
VARIABLES
    cmd,            \* the subcommand main runs: "G" or "V"
    gopts,          \* GenerationOpt
    vopts,          \* VerificationOpt
    fs,             \* the file system
    manifest,       \* the bytes of the manifest (the file, or the stream "-")
    exclusion,      \* Exclusion.e
    pc,             \* where the main thread is
    walk,           \* the WalkDir iterator: next root and the stack of open directories
    lines_left,     \* the lines BufReader::lines has still to yield
    count,          \* count
    queue,          \* jobs pool.execute has queued
    active,         \* jobs a pool thread is running
    chan,           \* results sent on the channel and not yet received
    rx_alive,       \* the Receiver has not been dropped
    recv,           \* iterations of the drain loop done
    results,        \* results (generation)
    all_succeeded,  \* all_succeeded
    stdout,         \* verification's printed lines, <<path, "OK" or "FAILED">>
    stderr,         \* number of diagnostics printed with eprintln
    ret,            \* what the pipeline function returned
    exit_code,      \* the process exit status
    submitted,      \* history: number of pool.execute calls
    delivered,      \* history: the jobs that ended, each with its result (Panic: none sent)
    panicked,       \* history: a worker's expect("Internal error.") panicked
    mutated,        \* history: the files changed after generation
    vanished,       \* history: the files removed while generation ran
    generated,      \* history: the manifest text comes from a generation run
    call,           \* a function of checksum.rs called on its own: its name and arguments
    out             \* what that call returned

vars == <<cmd, gopts, vopts, fs, manifest, exclusion, pc, walk, lines_left, count,
          queue, active, chan, rx_alive, recv, results, all_succeeded, stdout,
          stderr, ret, exit_code, submitted, delivered, panicked, mutated, vanished, generated,
          call, out>>

\* the value of ret while the pipeline function has not returned
NotReturned == Err("NotReturned")

(***************************************************************************)
(* Inputs.                                                                 *)
(***************************************************************************)
DirectoryChoices ==
    {<<P_dot>>, <<P_a>>, <<P_a, P_a_dot>>, <<P_dot_a, P_a>>, <<P_zz, P_a>>}

ExcludeChoices == {<<>>, <<P_dash>>, <<P_a>>, <<P_a, P_dot_ax>>}

ChecksumFileChoices == {P_dash, P_m}

LockedChoices == {L \in SUBSET (Nodes \ {P_cwd}) : Cardinality(L) <= MaxUnreadable}

InitialContent == [n \in FileNodes |->
    CASE n = P_ax -> 1 [] n = P_ay -> 2 [] n = P_a_c -> 3 [] n = P_m -> 4]

\* manifest lines for verification, written by hand
HexSha256(content) == ToHex(Digest(content, "SHA256"))

LineOf(checksum_str, path) == checksum_str \o <<Space, Space>> \o path

\* a digest token of 32 bytes whose second character is two bytes long
NonAsciiDigest == <<97, 195, 169>> \o Take(HexSha256(1), 29)

\* well-formed lines: a digest of a supported length and a path
GoodLineChoices ==
    { LineOf(HexSha256(1), P_ax),                        \* matches
      LineOf(ToHex(Digest(2, "MD5")), P_ay),             \* matches, MD5
      LineOf(HexSha256(9), P_ay) }                       \* does not match

\* lines whose unit fails or that give no unit
BadLineChoices ==
    { LineOf(Take(HexSha256(1), 33), P_ax),              \* odd length
      LineOf(Take(HexSha256(1), 4), P_ax),               \* no algorithm has 2 bytes
      LineOf(<<122, 122>> \o Take(HexSha256(1), 30), P_ax),  \* not hex
      LineOf(HexSha256(1), P_zz),                        \* no such file
      HexSha256(1),                                      \* one token
      <<>>,                                              \* no token
      <<255>>,                                           \* not UTF-8
      LineOf(NonAsciiDigest, P_ax) }                     \* 32 bytes, "\u00e9" at byte 1

RECURSIVE SeqsUpTo(_, _)
SeqsUpTo(S, n) ==
    IF n = 0 THEN {<<>>}
    ELSE LET shorter == SeqsUpTo(S, n - 1)
         IN  shorter \cup {Append(q, x) : q \in shorter, x \in S}

\* the manifests verification is given: up to MaxLines lines, at most one of
\* them a bad line
ManifestLineChoices ==
    LET good == SeqsUpTo(GoodLineChoices, MaxLines)
    IN  good \cup UNION {{SubSeq(g, 1, k) \o <<b>> \o SubSeq(g, k + 1, Len(g)) :
                                k \in 0..Len(g), b \in BadLineChoices} :
                            g \in SeqsUpTo(GoodLineChoices, MaxLines - 1)}

TextOfLines(ls) == Concat([i \in 1..Len(ls) |-> ls[i] \o <<Newline>>])

ManifestChoices == {TextOfLines(ls) : ls \in ManifestLineChoices}

DefaultGopts ==
    [directory |-> <<P_dot>>, exclude |-> <<P_dash>>, checksum_file |-> P_m,
     algorithm |-> "SHA256", num_threads |-> 1]

DefaultVopts ==
    [checksum_file |-> P_m, algorithm |-> None, num_threads |-> 1, quiet |-> FALSE]

\* no function is called on its own while main runs
NoCall == [fn |-> "none"]

(***************************************************************************)
(* Init: main has parsed the arguments and entered generate_checksums      *)
(* (pool, channel, count and the Exclusion are built) or verify_checksums. *)
(***************************************************************************)
RunStart(first_pc) ==
    /\ pc = first_pc
    /\ walk = [root |-> 1, stack |-> <<>>]
    /\ lines_left = <<>>
    /\ count = 0
    /\ queue = <<>>
    /\ active = {}
    /\ chan = <<>>
    /\ rx_alive = TRUE
    /\ recv = 0
    /\ results = <<>>
    /\ all_succeeded = TRUE
    /\ stdout = <<>>
    /\ stderr = 0
    /\ ret = NotReturned
    /\ exit_code = -1
    /\ submitted = 0
    /\ delivered = {}
    /\ panicked = FALSE

\* The inputs are bounded: the tree below "." is walked by one thread and
\* without "a/y"; roots given twice are walked without "a/y"; algorithms
\* other than the default, unreadable nodes and a missing root are combined
\* with the default exclusion list only.
Scenario(g, f) ==
    /\ (P_ay \in f.present) = (g.directory \in {<<P_a>>, <<P_zz, P_a>>})
    /\ g.directory = <<P_dot>> => g.num_threads = 1
    /\ g.directory # <<P_dot>> => P_m \in f.present
    /\ g.algorithm # "SHA256" =>
          /\ g.directory = <<P_a>>
          /\ g.checksum_file = P_m
          /\ g.num_threads = 1
          /\ f.locked = {}
    /\ (g.algorithm # "SHA256" \/ f.locked # {} \/ g.directory = <<P_zz, P_a>>) =>
          g.exclude = <<P_dash>>
    /\ f.locked \subseteq DirNodes \cup f.present

InitG ==
    /\ cmd = "G"
    /\ gopts \in [directory : DirectoryChoices, exclude : ExcludeChoices,
                  checksum_file : ChecksumFileChoices, algorithm : Algorithms,
                  num_threads : 1..MaxThreads]
    /\ vopts = DefaultVopts
    /\ fs \in [present : {FileNodes \ gone : gone \in SUBSET {P_ay, P_m}},
               content : {InitialContent}, locked : LockedChoices]
    /\ Scenario(gopts, fs)
    /\ manifest = <<>>
    /\ exclusion = ExclusionNew(fs, gopts.exclude, gopts.checksum_file)
    /\ mutated = {}
    /\ vanished = {}
    /\ generated = FALSE
    /\ RunStart("g_walk")
    /\ call = NoCall
    /\ out = NotReturned

InitV ==
    /\ cmd = "V"
    /\ gopts = DefaultGopts
    /\ vopts \in [checksum_file : {P_m}, algorithm : {None, "MD5"},
                  num_threads : 1..MaxThreads, quiet : BOOLEAN]
    /\ (vopts.algorithm # None \/ vopts.quiet) => vopts.num_threads = 1
    /\ manifest \in ManifestChoices
    /\ fs = [present |-> FileNodes,
             content |-> [InitialContent EXCEPT ![P_m] = ContentOfText(manifest)],
             locked |-> {}]
    /\ exclusion = <<>>
    /\ mutated = {}
    /\ vanished = {}
    /\ generated = FALSE
    /\ RunStart("v_open")
    /\ call = NoCall
    /\ out = NotReturned

Init == InitG \/ InitV

(***************************************************************************)
(* The thread pool and the channel (both pipelines).                       *)
(***************************************************************************)
NumThreads == IF cmd = "G" THEN gopts.num_threads ELSE vopts.num_threads

\* the closure given to pool.execute, up to its tx.send
JobResult(job) ==
    IF cmd = "G" THEN output_checksum(fs, job.path, gopts.algorithm)
    ELSE verify_checksum(fs, job.path, job.checksum, vopts.algorithm)

\* pool.execute(job): the job is queued
Execute(job) ==
    /\ queue' = Append(queue, job)
    /\ submitted' = submitted + 1

\* a free pool thread takes the oldest queued job
WorkerStart ==
    /\ pc # "exit"
    /\ queue # <<>>
    /\ Cardinality(active) < NumThreads
    /\ active' = active \cup {Head(queue)}
    /\ queue' = Tail(queue)
    /\ UNCHANGED <<call, out, cmd, gopts, vopts, fs, manifest, exclusion, pc, walk, lines_left,
                   count, chan, rx_alive, recv, results, all_succeeded, stdout,
                   stderr, ret, exit_code, submitted, delivered, panicked, mutated, vanished,
                   generated>>

\* the job reads its file and sends its result; send fails, and expect
\* panics, when the Receiver is gone. A job that panics before tx.send ends
\* without sending: the thread unwinds, dropping its clone of tx.
WorkerFinish ==
    /\ pc # "exit"
    /\ \E job \in active :
          /\ active' = active \ {job}
          /\ delivered' = delivered \cup {[job |-> job, res |-> JobResult(job)]}
          /\ IF JobResult(job) = Panic
             THEN UNCHANGED <<chan, panicked>>
             ELSE IF rx_alive
             THEN chan' = Append(chan, JobResult(job)) /\ UNCHANGED panicked
             ELSE panicked' = TRUE /\ UNCHANGED chan
    /\ UNCHANGED <<call, out, cmd, gopts, vopts, fs, manifest, exclusion, pc, walk, lines_left,
                   count, queue, rx_alive, recv, results, all_succeeded, stdout,
                   stderr, ret, exit_code, submitted, mutated, vanished, generated>>

(***************************************************************************)
(* WalkDir::new(d).follow_links(true).same_file_system(true), flattened    *)
(* over opts.directory. A stack frame is an open directory: its path as    *)
(* the walk spells it, the children read_dir has still to yield, and       *)
(* whether read_dir failed.                                                *)
(***************************************************************************)
DirFrame(path, node) ==
    IF node \in fs.locked THEN [dir |-> path, rest |-> {}, err |-> TRUE]
    ELSE [dir |-> path, rest |-> Children(fs, node), err |-> FALSE]

RECURSIVE PopExhausted(_)
PopExhausted(stack) ==
    IF stack # <<>> /\ stack[Len(stack)].rest = {} /\ ~stack[Len(stack)].err
    THEN PopExhausted(SubSeq(stack, 1, Len(stack) - 1))
    ELSE stack

\* the entries the iterator may yield next, each with the iterator after it
\* (read_dir yields a directory's children in any order)
WalkNext ==
    IF walk.stack = <<>>
    THEN IF walk.root > Len(gopts.directory) THEN {}
         ELSE LET r == gopts.directory[walk.root]
              IN  IF ~Exists(fs, r)
                  THEN {[entry |-> Err("walkdir"),
                         next |-> [root |-> walk.root + 1, stack |-> <<>>]]}
                  ELSE {[entry |-> Ok(r),
                         next |-> [root |-> walk.root + 1,
                                   stack |-> IF IsDir(fs, r)
                                             THEN PopExhausted(<<DirFrame(r, Resolve(r))>>)
                                             ELSE <<>>]]}
    ELSE LET n == Len(walk.stack)
             top == walk.stack[n]
             below == SubSeq(walk.stack, 1, n - 1)
         IN  IF top.err
             THEN {[entry |-> Err("walkdir"),
                    next |-> [walk EXCEPT !.stack = PopExhausted(below)]]}
             ELSE {[entry |-> Ok(PathJoin(top.dir, FileName(c))),
                    next |-> [walk EXCEPT !.stack =
                        PopExhausted(Append(below, [top EXCEPT !.rest = top.rest \ {c}])
                            \o IF c \in DirNodes
                               THEN <<DirFrame(PathJoin(top.dir, FileName(c)), c)>>
                               ELSE <<>>)]]
                   : c \in top.rest}

(***************************************************************************)
(* generate_checksums                                                      *)
(***************************************************************************)
\* one iteration of the loop over the walk (lines 73-90)
GenWalk ==
    /\ pc = "g_walk"
    /\ \E step \in WalkNext :
          /\ walk' = step.next
          /\ IF step.entry.ok
             THEN LET path == step.entry.val
                  IN  IF IsDir(fs, path) \/ ~IsFile(fs, path) \/ is_excluded(exclusion, fs, path)
                      THEN UNCHANGED <<queue, submitted, count, stderr>>
                      ELSE /\ Execute([id |-> submitted + 1, path |-> path, checksum |-> <<>>])
                           /\ count' = count + 1
                           /\ UNCHANGED stderr
             ELSE /\ stderr' = stderr + 1
                  /\ count' = count + 1
                  /\ UNCHANGED <<queue, submitted>>
    /\ UNCHANGED <<call, out, cmd, gopts, vopts, fs, manifest, exclusion, pc, lines_left, active,
                   chan, rx_alive, recv, results, all_succeeded, stdout, ret,
                   exit_code, delivered, panicked, mutated, vanished, generated>>

\* the walk is over: open the output (lines 93-97). create+truncate empties
\* the manifest file; a failure leaves the function through '?', dropping
\* tx, rx and the pool handle.
GenOpen ==
    /\ pc = "g_walk"
    /\ WalkNext = {}
    /\ IF gopts.checksum_file = P_dash
       THEN /\ pc' = "g_drain"
            /\ UNCHANGED <<fs, manifest, rx_alive, ret>>
       ELSE IF IsDir(fs, gopts.checksum_file) \/ Resolve(gopts.checksum_file) \in fs.locked
       THEN /\ pc' = "returned"
            /\ ret' = Err("Io")
            /\ rx_alive' = FALSE
            /\ UNCHANGED <<fs, manifest>>
       ELSE /\ pc' = "g_drain"
            /\ fs' = [fs EXCEPT !.present = @ \cup {Resolve(gopts.checksum_file)},
                                !.content[Resolve(gopts.checksum_file)] = 0]
            /\ manifest' = <<>>
            /\ UNCHANGED <<rx_alive, ret>>
    /\ UNCHANGED <<call, out, cmd, gopts, vopts, exclusion, walk, lines_left, count, queue, active,
                   chan, recv, results, all_succeeded, stdout, stderr, exit_code,
                   submitted, delivered, panicked, mutated, vanished, generated>>

\* the drain loop leaving at the first failed result
GenRecvStopAtError ==
    /\ pc = "g_drain"
    /\ recv < count
    /\ chan # <<>>
    /\ chan' = Tail(chan)
    /\ IF Head(chan).ok
       THEN /\ results' = Append(results, <<StripDotPrefix(Head(chan).val[1]),
                                           ToHex(Head(chan).val[2])>>)
            /\ recv' = recv + 1
            /\ UNCHANGED <<stderr, all_succeeded>>
       ELSE /\ stderr' = stderr + 1
            /\ all_succeeded' = FALSE
            /\ recv' = count
            /\ UNCHANGED results
    /\ UNCHANGED <<call, out, cmd, gopts, vopts, fs, manifest, exclusion, pc, walk, lines_left,
                   count, queue, active, rx_alive, stdout, ret, exit_code, submitted,
                   delivered, panicked, mutated, vanished, generated>>
\* one iteration of the drain loop (lines 100-112). rx.iter().next() blocks
\* while the channel is empty: tx itself is alive until the block ends, so
\* the channel never reports disconnection.
GenRecv ==
    /\ pc = "g_drain"
    /\ recv < count
    /\ chan # <<>>
    /\ chan' = Tail(chan)
    /\ recv' = recv + 1
    /\ IF Head(chan).ok
       THEN /\ results' = Append(results, <<StripDotPrefix(Head(chan).val[1]),
                                           ToHex(Head(chan).val[2])>>)
            /\ UNCHANGED <<stderr, all_succeeded>>
       ELSE /\ stderr' = stderr + 1
            /\ all_succeeded' = FALSE
            /\ UNCHANGED results
    /\ UNCHANGED <<call, out, cmd, gopts, vopts, fs, manifest, exclusion, pc, walk, lines_left,
                   count, queue, active, rx_alive, stdout, ret, exit_code, submitted,
                   delivered, panicked, mutated, vanished, generated>>

\* sort and write (lines 113-116); the block ends, dropping tx and rx
GenWrite ==
    /\ pc = "g_drain"
    /\ recv = count
    /\ manifest' = ManifestText(SortByPath(results))
    /\ IF gopts.checksum_file = P_dash THEN UNCHANGED fs
       ELSE fs' = [fs EXCEPT !.content[Resolve(gopts.checksum_file)] = ContentOfText(manifest')]
    /\ rx_alive' = FALSE
    /\ generated' = TRUE
    /\ pc' = "g_join"
    /\ UNCHANGED <<call, out, cmd, gopts, vopts, exclusion, walk, lines_left, count, queue, active,
                   chan, recv, results, all_succeeded, stdout, stderr, ret, exit_code,
                   submitted, delivered, panicked, mutated, vanished>>

\* pool.join() and Ok(all_succeeded) (lines 118-119, 178-179)
Join ==
    /\ pc \in {"g_join", "v_join"}
    /\ queue = <<>>
    /\ active = {}
    /\ ret' = Ok(all_succeeded)
    /\ pc' = "returned"
    /\ UNCHANGED <<call, out, cmd, gopts, vopts, fs, manifest, exclusion, walk, lines_left, count,
                   queue, active, chan, rx_alive, recv, results, all_succeeded, stdout,
                   stderr, exit_code, submitted, delivered, panicked, mutated, vanished, generated>>

(***************************************************************************)
(* verify_checksums                                                        *)
(***************************************************************************)
\* File::open(&opts.checksum_file)? or stdin (lines 138-142)
VerOpen ==
    /\ pc = "v_open"
    /\ IF vopts.checksum_file = P_dash
          \/ (IsFile(fs, vopts.checksum_file) /\ Resolve(vopts.checksum_file) \notin fs.locked)
       THEN /\ lines_left' = Lines(manifest)
            /\ pc' = "v_read"
            /\ UNCHANGED <<ret, rx_alive>>
       ELSE /\ ret' = Err("Io")
            /\ rx_alive' = FALSE
            /\ pc' = "returned"
            /\ UNCHANGED lines_left
    /\ UNCHANGED <<call, out, cmd, gopts, vopts, fs, manifest, exclusion, walk, count, queue, active,
                   chan, recv, results, all_succeeded, stdout, stderr, ret, exit_code,
                   submitted, delivered, panicked, mutated, vanished, generated>>

\* the loop over the lines with next_part! returning the error instead of
\* continuing
VerReadLineFatal ==
    /\ pc = "v_read"
    /\ lines_left # <<>>
    /\ LET line == Head(lines_left)
           parts == SplitWhitespace(line)
       IN  IF ~IsUtf8(line) \/ Len(parts) < 2
           THEN /\ ret' = Err(IF IsUtf8(line) THEN "InvalidHashValue" ELSE "Io")
                /\ rx_alive' = FALSE
                /\ pc' = "returned"
                /\ UNCHANGED <<lines_left, stderr, queue, submitted, count>>
           ELSE /\ lines_left' = Tail(lines_left)
                /\ Execute([id |-> submitted + 1, path |-> parts[2], checksum |-> parts[1]])
                /\ count' = count + 1
                /\ UNCHANGED <<ret, rx_alive, pc, stderr>>
    /\ UNCHANGED <<call, out, cmd, gopts, vopts, fs, manifest, exclusion, walk, active, chan, recv,
                   results, all_succeeded, stdout, exit_code, delivered, panicked,
                   mutated, vanished, generated>>
\* one iteration of the loop over the lines (lines 145-158); next_part!
\* continues when a token is missing
VerReadLine ==
    /\ pc = "v_read"
    /\ lines_left # <<>>
    /\ LET line == Head(lines_left)
           parts == SplitWhitespace(line)
       IN  IF ~IsUtf8(line)
           THEN /\ ret' = Err("Io")
                /\ rx_alive' = FALSE
                /\ pc' = "returned"
                /\ UNCHANGED <<lines_left, stderr, queue, submitted, count>>
           ELSE /\ lines_left' = Tail(lines_left)
                /\ UNCHANGED <<ret, rx_alive, pc>>
                /\ IF Len(parts) < 2
                   THEN /\ stderr' = stderr + 1
                        /\ UNCHANGED <<queue, submitted, count>>
                   ELSE /\ Execute([id |-> submitted + 1, path |-> parts[2],
                                    checksum |-> parts[1]])
                        /\ count' = count + 1
                        /\ UNCHANGED stderr
    /\ UNCHANGED <<call, out, cmd, gopts, vopts, fs, manifest, exclusion, walk, active, chan, recv,
                   results, all_succeeded, stdout, exit_code, delivered, panicked,
                   mutated, vanished, generated>>

\* one iteration of the drain loop (lines 160-176)
VerRecv ==
    /\ pc = "v_read"
    /\ lines_left = <<>>
    /\ recv < count
    /\ chan # <<>>
    /\ chan' = Tail(chan)
    /\ recv' = recv + 1
    /\ IF Head(chan).ok
       THEN LET path == Head(chan).val[1]
                is_ok == Head(chan).val[2]
            IN  /\ stdout' = IF is_ok
                             THEN (IF vopts.quiet THEN stdout ELSE Append(stdout, <<path, "OK">>))
                             ELSE Append(stdout, <<path, "FAILED">>)
                /\ all_succeeded' = (all_succeeded /\ is_ok)
                /\ UNCHANGED stderr
       ELSE /\ stderr' = stderr + 1
            /\ UNCHANGED <<stdout, all_succeeded>>
    /\ UNCHANGED <<call, out, cmd, gopts, vopts, fs, manifest, exclusion, pc, walk, lines_left,
                   count, queue, active, rx_alive, results, ret, exit_code, submitted,
                   delivered, panicked, mutated, vanished, generated>>

\* the drain loop is done; the block ends, dropping tx and rx (line 177)
VerDrained ==
    /\ pc = "v_read"
    /\ lines_left = <<>>
    /\ recv = count
    /\ rx_alive' = FALSE
    /\ pc' = "v_join"
    /\ UNCHANGED <<call, out, cmd, gopts, vopts, fs, manifest, exclusion, walk, lines_left, count,
                   queue, active, chan, recv, results, all_succeeded, stdout, stderr,
                   ret, exit_code, submitted, delivered, panicked, mutated, vanished, generated>>

(***************************************************************************)
(* main                                                                    *)
(***************************************************************************)
\* lines 182-197: exit(1) when the pipeline returned false; an Err returned
\* from main also ends the process with status 1
MainExit ==
    /\ pc = "returned"
    /\ exit_code' = IF ret.ok /\ ret.val THEN 0 ELSE 1
    /\ pc' = "exit"
    /\ UNCHANGED <<call, out, cmd, gopts, vopts, fs, manifest, exclusion, walk, lines_left, count,
                   queue, active, chan, rx_alive, recv, results, all_succeeded, stdout,
                   stderr, ret, submitted, delivered, panicked, mutated, vanished, generated>>

(***************************************************************************)
(* The environment between a generation run and a verification run.        *)
(***************************************************************************)
\* somebody changes the content of one file of the tree
Mutate ==
    /\ cmd = "G"
    /\ pc = "exit"
    /\ generated
    /\ Cardinality(mutated) < MaxMutations
    /\ \E n \in (fs.present \ mutated) \ {Resolve(gopts.checksum_file)} :
          /\ fs' = [fs EXCEPT !.content[n] = @ + 10]
          /\ mutated' = mutated \cup {n}
    /\ UNCHANGED <<call, out, cmd, gopts, vopts, manifest, exclusion, pc, walk, lines_left, count,
                   queue, active, chan, rx_alive, recv, results, all_succeeded, stdout,
                   stderr, ret, exit_code, submitted, delivered, panicked, vanished,
                   generated>>

\* somebody removes a file of the tree while the generation run is walking or
\* draining (explored with the default exclusion list and all nodes readable)
Vanish ==
    /\ cmd = "G"
    /\ pc \in {"g_walk", "g_drain"}
    /\ gopts.exclude = <<P_dash>>
    /\ fs.locked = {}
    /\ Cardinality(vanished) < MaxVanished
    /\ \E n \in fs.present \ {Resolve(gopts.checksum_file)} :
          /\ fs' = [fs EXCEPT !.present = @ \ {n}]
          /\ vanished' = vanished \cup {n}
    /\ UNCHANGED <<call, out, cmd, gopts, vopts, manifest, exclusion, pc, walk, lines_left, count,
                   queue, active, chan, rx_alive, recv, results, all_succeeded, stdout,
                   stderr, ret, exit_code, submitted, delivered, panicked, mutated,
                   generated>>

\* chksum v is run, from the same working directory, on the manifest the
\* generation run wrote, with no explicit algorithm
StartVerify ==
    /\ cmd = "G"
    /\ pc = "exit"
    /\ generated
    /\ cmd' = "V"
    /\ vopts' = [checksum_file |-> gopts.checksum_file, algorithm |-> None,
                 num_threads |-> gopts.num_threads, quiet |-> FALSE]
    /\ pc' = "v_open"
    /\ walk' = [root |-> 1, stack |-> <<>>]
    /\ lines_left' = <<>>
    /\ count' = 0
    /\ queue' = <<>>
    /\ active' = {}
    /\ chan' = <<>>
    /\ rx_alive' = TRUE
    /\ recv' = 0
    /\ results' = <<>>
    /\ all_succeeded' = TRUE
    /\ stdout' = <<>>
    /\ stderr' = 0
    /\ ret' = NotReturned
    /\ exit_code' = -1
    /\ submitted' = 0
    /\ delivered' = {}
    /\ panicked' = FALSE
    /\ UNCHANGED <<call, out, gopts, fs, manifest, exclusion, mutated, vanished, generated>>

Next ==
    \/ GenWalk
    \/ GenOpen
    \/ GenRecv
    \/ GenWrite
    \/ VerOpen
    \/ VerReadLine
    \/ VerRecv
    \/ VerDrained
    \/ Join
    \/ MainExit
    \/ WorkerStart
    \/ WorkerFinish
    \/ Vanish
    \/ Mutate
    \/ StartVerify

Spec == Init /\ [][Next]_vars

(***************************************************************************)
(* The functions of checksum.rs called on their own, as the unit test      *)
(* test_checksum calls them: one call per behaviour, its arguments chosen  *)
(* in the initial state.                                                   *)
(***************************************************************************)
mainvars == <<cmd, gopts, vopts, fs, manifest, exclusion, pc, walk, lines_left, count,
              queue, active, chan, rx_alive, recv, results, all_succeeded, stdout,
              stderr, ret, exit_code, submitted, delivered, panicked, mutated, vanished,
              generated>>

\* the tree the calls see: every file there, with the content it starts with
FnFs == [present |-> FileNodes, content |-> InitialContent, locked |-> {}]

GuessCalls == {[fn |-> "guess_algorithm", hash_size |-> n] : n \in 0..MaxHashSize}

\* digests to encode: the digests of some contents, and for each supported
\* length and each byte value the digest made of that byte alone
HexInputs ==
    {Digest(c, a) : c \in 0..MaxContent, a \in Algorithms}
        \cup {[i \in 1..HashSize(a) |-> b] : a \in Algorithms, b \in 0..255}

HexCalls == {[fn |-> "hex", bytes |-> d] : d \in HexInputs}

\* digest strings given to verify_checksum: for each algorithm the digest of
\* "a/x" and a digest of another content; strings of no supported length, of
\* odd length, and with a byte that is no hex digit
VerifyChecksumChoices ==
    {ToHex(Digest(1, a)) : a \in Algorithms}
        \cup {ToHex(Digest(9, a)) : a \in Algorithms}
        \cup {Take(HexSha256(1), 4), Take(HexSha256(1), 33), <<>>, NonAsciiDigest,
              <<122, 122>> \o Take(HexSha256(1), 30)}

VerifyCalls ==
    [fn : {"verify_checksum"}, path : {P_ax, P_zz}, checksum : VerifyChecksumChoices,
     algorithm : {None} \cup Algorithms]

FnInit ==
    /\ \/ call \in GuessCalls
       \/ call \in HexCalls
       \/ call \in VerifyCalls
    /\ out = NotReturned
    /\ cmd = "F"
    /\ gopts = DefaultGopts
    /\ vopts = DefaultVopts
    /\ fs = FnFs
    /\ manifest = <<>>
    /\ exclusion = <<>>
    /\ mutated = {}
    /\ vanished = {}
    /\ generated = FALSE
    /\ RunStart("exit")

\* guess_algorithm(hash_size)
CallGuessAlgorithm ==
    /\ call.fn = "guess_algorithm"
    /\ out = NotReturned
    /\ out' = guess_algorithm(call.hash_size)
    /\ UNCHANGED <<call, mainvars>>

\* the hex string generation writes for a digest (main.rs:104), and
\* str_to_bytes of that string
CallHexThenStrToBytes ==
    /\ call.fn = "hex"
    /\ out = NotReturned
    /\ out' = [hex |-> ToHex(call.bytes), decoded |-> str_to_bytes(ToHex(call.bytes))]
    /\ UNCHANGED <<call, mainvars>>

\* verify_checksum(path, checksum, algorithm)
CallVerifyChecksum ==
    /\ call.fn = "verify_checksum"
    /\ out = NotReturned
    /\ out' = verify_checksum(fs, call.path, call.checksum, call.algorithm)
    /\ UNCHANGED <<call, mainvars>>

FnNext ==
    \/ CallGuessAlgorithm
    \/ CallHexThenStrToBytes
    \/ CallVerifyChecksum

FnSpec == FnInit /\ [][FnNext]_vars

(***************************************************************************)
(* What the claims speak of.                                               *)
(***************************************************************************)
\* the generation run has written its manifest
Written == generated /\ cmd = "G"

\* the path on each line of the generated manifest: the line after the hex
\* digest and the two spaces
ManifestPaths ==
    LET ls == Lines(manifest)
    IN  [i \in 1..Len(ls) |-> Drop(ls[i], 2 * HashSize(gopts.algorithm) + 2)]

\* every order in which the same results can arrive
Arrivals(s) ==
    {[i \in 1..Len(s) |-> s[f[i]]] :
        f \in {g \in [1..Len(s) -> 1..Len(s)] :
                  \A i, j \in 1..Len(s) : i # j => g[i] # g[j]}}

\* C1: the lines written are the same for every order in which the workers'
\* results arrive: whatever the arrival order of the results received, sorting
\* and writing them gives the manifest that was written.
C1_OutputIndependentOfArrival ==
    Written => \A a \in Arrivals(results) : ManifestText(SortByPath(a)) = manifest

PathLeq(p, q) == CompareComponents(Components(p), Components(q)) <= 0

C2_RepeatedPath ==
    /\ Written
    /\ \E i \in 1..(Len(ManifestPaths) - 1) : ManifestPaths[i] = ManifestPaths[i + 1]

\* the two manifests the roots "a" and "a/." give for the same file "a/x",
\* one per arrival order
C1_PlainSpellingFirst ==
    Written /\ gopts.directory = <<P_a, P_a_dot>>
            /\ ManifestPaths = <<P_ax, PathJoin(P_a_dot, <<120>>)>>

C1_DottedSpellingFirst ==
    Written /\ gopts.directory = <<P_a, P_a_dot>>
            /\ ManifestPaths = <<PathJoin(P_a_dot, <<120>>), P_ax>>

\* every unit of the run came back with a successful match
AllUnitsMatched == \A d \in delivered : d.res.ok /\ d.res.val[2]

\* C3: verification returns true exactly when every submitted unit returned
\* a successful match (a mismatch or an error makes it false), and main
\* exits with status 1 when it is false.
C3_AggregateIsConjunction ==
    (cmd = "V" /\ pc = "exit" /\ ret.ok) =>
        /\ ret.val = AllUnitsMatched
        /\ (exit_code = 1) = ~AllUnitsMatched

\* a verification run, finished, of the manifest a generation run wrote,
\* no file having been removed while it was generated
VerifiedGenerated == cmd = "V" /\ generated /\ pc = "exit" /\ vanished = {}

\* C4: verifying the manifest generation wrote, the tree unchanged, prints
\* OK for every entry of the manifest and returns true.
C4_RoundTrip ==
    (VerifiedGenerated /\ mutated = {}) =>
        /\ ret = Ok(TRUE)
        /\ \A i \in 1..Len(ManifestPaths) :
              SeqCount(stdout, <<ManifestPaths[i], "OK">>)
                  = SeqCount(ManifestPaths, ManifestPaths[i])

\* the round trip of a tree without the file "a c" and without the manifest
C4_CleanTreeRoundTrip ==
    /\ VerifiedGenerated /\ mutated = {} /\ ret = Ok(TRUE)
    /\ Len(ManifestPaths) = 2 /\ Len(stdout) = 2

\* the round trip fails on the entry of "a c": verification reads the path "a"
C4_FailsOnPathWithSpace ==
    /\ VerifiedGenerated /\ mutated = {}
    /\ P_a_c \in Range(ManifestPaths)
    /\ \A i \in 1..Len(stdout) : stdout[i][1] # P_a_c

\* the round trip fails on the manifest's entry for itself
C4_FailsOnSelfEntry ==
    /\ VerifiedGenerated /\ mutated = {}
    /\ <<P_m, "FAILED">> \in Range(stdout)

\* C5: one file of the manifest changed after generation: verification
\* prints FAILED for that file's entries and OK for all others, and returns
\* false.
C5_ExactlyTheChangedFileFails ==
    (/\ VerifiedGenerated
     /\ Cardinality(mutated) = 1
     /\ \E i \in 1..Len(ManifestPaths) : Resolve(ManifestPaths[i]) \in mutated) =>
        /\ ret = Ok(FALSE)
        /\ \A i \in 1..Len(ManifestPaths) :
              LET q == ManifestPaths[i]
                  n == SeqCount(ManifestPaths, q)
              IN  IF Resolve(q) \in mutated
                  THEN SeqCount(stdout, <<q, "FAILED">>) = n /\ SeqCount(stdout, <<q, "OK">>) = 0
                  ELSE SeqCount(stdout, <<q, "OK">>) = n /\ SeqCount(stdout, <<q, "FAILED">>) = 0

\* the same on a tree without "a c" and without the manifest: there it holds
C5_CleanTreeCase ==
    /\ VerifiedGenerated /\ mutated = {P_ax} /\ ret = Ok(FALSE)
    /\ Range(stdout) = {<<P_ax, "FAILED">>, <<P_ay, "OK">>}

\* the threads of the program run: the main thread and the pool threads
ProgramStep ==
    \/ GenWalk \/ GenOpen \/ GenRecv \/ GenWrite
    \/ VerOpen \/ VerReadLine \/ VerRecv \/ VerDrained
    \/ Join \/ MainExit \/ WorkerStart \/ WorkerFinish

FairSpec == Spec /\ WF_vars(ProgramStep)

\* C6: under fair scheduling a generation run returns, whatever mix of Ok
\* and Err entries the walk yields. Every loop of the run is bounded, so it
\* returns exactly when it never comes to a state where it has not returned
\* and no thread can take a step.
C6_GenerationReturns ==
    cmd = "G" => (pc \in {"returned", "exit"} \/ ENABLED ProgramStep)

\* the same as a property of the fair behaviours
C6_EventuallyReturns == (cmd = "G" /\ pc = "g_walk") ~> (pc = "returned")

\* the aggregator waits for a result nobody will send
C6_DrainStarved ==
    /\ cmd = "G" /\ pc = "g_drain" /\ recv < count
    /\ chan = <<>> /\ queue = <<>> /\ active = {}

\* the successful units whose path, stripped, is q
SucceededAs(q) == {d \in delivered : d.res.ok /\ StripDotPrefix(d.job.path) = q}

\* C7: when a unit's digest fails, generation returns false, writes no line
\* for it, and writes exactly one line for every unit that succeeded.
C7_FailedDigestDoesNotAbort ==
    (cmd = "G" /\ pc \in {"returned", "exit"} /\ ret.ok) =>
        /\ (\E d \in delivered : ~d.res.ok) => ret.val = FALSE
        /\ \A d \in delivered :
              SeqCount(ManifestPaths, StripDotPrefix(d.job.path))
                  = Cardinality(SucceededAs(StripDotPrefix(d.job.path)))
        /\ Len(ManifestPaths) = Cardinality({d \in delivered : d.res.ok})

C7_Witness ==
    /\ cmd = "G" /\ pc = "exit" /\ ret = Ok(FALSE)
    /\ \E d \in delivered : ~d.res.ok
    /\ Len(ManifestPaths) >= 1

\* the jobs given to pool.execute so far
SubmittedJobs == Range(queue) \cup active \cup {d.job : d \in delivered}

RECURSIVE Ancestors(_)
Ancestors(n) == IF n = P_cwd THEN {} ELSE {ParentOf(n)} \cup Ancestors(ParentOf(n))

\* the walk reaches file f and its digest can be computed
WalkedAndReadable(f) ==
    /\ \E k \in 1..Len(gopts.directory) :
          Exists(fs, gopts.directory[k]) /\ Resolve(gopts.directory[k]) \in Ancestors(f)
    /\ ({f} \cup Ancestors(f)) \cap fs.locked = {}

\* C8: a file whose canonical path is in the exclusion list is never
\* submitted and never in the manifest; a file in an excluded directory, not
\* listed itself, is in the manifest.
C8_ExclusionIsExactMatch ==
    cmd = "G" =>
        /\ \A j \in SubmittedJobs : Resolve(j.path) \notin Range(exclusion)
        /\ Written =>
              /\ \A i \in 1..Len(ManifestPaths) :
                    Resolve(ManifestPaths[i]) \notin Range(exclusion)
              /\ \A f \in fs.present :
                    (/\ ParentOf(f) \in Range(exclusion)
                     /\ f \notin Range(exclusion)
                     /\ WalkedAndReadable(f)) =>
                        \E i \in 1..Len(ManifestPaths) : Resolve(ManifestPaths[i]) = f

\* "a" and "a/x" are excluded: "a/y" is in the manifest and "a/x" is not
C8_Witness ==
    /\ Written
    /\ Range(exclusion) = {P_a, P_ax}
    /\ Range(ManifestPaths) = {P_ay}

\* C9: when the manifest is a real file the exclusion set holds its
\* canonical path, whatever the exclusion list and whether or not the file
\* existed, so the manifest has no entry for itself; and with "-" for both
\* nothing is excluded.
C9_ManifestExcludesItself ==
    Written =>
        /\ gopts.checksum_file # P_dash =>
              /\ Resolve(gopts.checksum_file) \in Range(exclusion)
              /\ \A i \in 1..Len(ManifestPaths) :
                    Resolve(ManifestPaths[i]) # Resolve(gopts.checksum_file)
        /\ (gopts.checksum_file = P_dash /\ gopts.exclude = <<P_dash>>) => exclusion = <<>>

\* the manifest holds an entry for itself
C9_SelfEntryWritten ==
    /\ Written /\ gopts.checksum_file = P_m
    /\ P_m \in Range(ManifestPaths)

\* a line verification gives no unit, or whose digest has odd length
Malformed(line) ==
    LET parts == SplitWhitespace(line)
    IN  Len(parts) < 2 \/ Len(parts[1]) % 2 = 1

WellFormedLines == SelectSeq(Lines(manifest), LAMBDA l : ~Malformed(l))

\* what checking this line alone prints
PrintOf(line) ==
    LET parts == SplitWhitespace(line)
        r == verify_checksum(fs, parts[2], parts[1], vopts.algorithm)
    IN  IF ~r.ok THEN <<>>
        ELSE IF ~r.val[2] THEN <<<<parts[2], "FAILED">>>>
        ELSE IF vopts.quiet THEN <<>>
        ELSE <<<<parts[2], "OK">>>>

PrintsWithoutMalformed ==
    Concat([i \in 1..Len(WellFormedLines) |-> PrintOf(WellFormedLines[i])])

\* C10: malformed lines print nothing, do not make the run fail or wait for
\* ever, and the other lines print what they print without them.
C10_MalformedLinesDoNotInterfere ==
    cmd = "V" =>
        /\ \A d \in delivered : Len(d.job.checksum) % 2 = 1 => d.res # Panic
        /\ (pc = "v_read" /\ \A d \in delivered : d.res # Panic) =>
              count - recv = Len(chan) + Len(queue) + Cardinality(active)
        /\ (/\ pc \in {"returned", "exit"}
            /\ \A i \in 1..Len(Lines(manifest)) : IsUtf8(Lines(manifest)[i])) =>
              /\ ret.ok
              /\ LET expected == PrintsWithoutMalformed
                 IN  \A x \in Range(stdout) \cup Range(expected) :
                        SeqCount(stdout, x) = SeqCount(expected, x)

C10_Witness ==
    /\ cmd = "V" /\ pc = "exit" /\ ret.ok
    /\ \E i \in 1..Len(stdout) : stdout[i][2] = "OK"
    /\ \A i \in 1..Len(Lines(manifest)) : IsUtf8(Lines(manifest)[i])
    /\ \E i \in 1..Len(Lines(manifest)) : Malformed(Lines(manifest)[i])

\* a line that gives next_part! fewer than two tokens
FewTokens(line) == Len(SplitWhitespace(line)) < 2

\* C11: when the manifest has a line of fewer than two tokens, verification
\* returns false, and the other lines are still processed (each line of two
\* tokens or more is submitted).
C11_MalformedLineFailsRun ==
    (/\ cmd = "V" /\ pc \in {"returned", "exit"} /\ ret.ok
     /\ \E i \in 1..Len(Lines(manifest)) : FewTokens(Lines(manifest)[i])) =>
        /\ ret.val = FALSE
        /\ submitted = Len(SelectSeq(Lines(manifest), LAMBDA l : ~FewTokens(l)))

\* a run over a one-token line and a line that verifies OK: it returns true
C11_ReturnsTrueDespiteMalformedLine ==
    /\ cmd = "V" /\ pc = "exit" /\ ret = Ok(TRUE) /\ exit_code = 0
    /\ \E i \in 1..Len(Lines(manifest)) : FewTokens(Lines(manifest)[i])
    /\ \E i \in 1..Len(stdout) : stdout[i][2] = "OK"

\* C12: once a unit has been submitted, neither pipeline function returns,
\* with success or with an error, before every submitted unit has run and
\* its result has been received.
C12_NoReturnBeforeUnitsDone ==
    (pc \in {"returned", "exit"} /\ submitted >= 1) =>
        /\ queue = <<>>
        /\ active = {}
        /\ recv = submitted

\* generation has returned the error of opening the manifest while units
\* are queued or running
C12_GenerationAbortsMidRun ==
    /\ cmd = "G" /\ pc = "returned" /\ ~ret.ok
    /\ Len(queue) + Cardinality(active) >= 1

\* verification has returned the error of reading a line while units are
\* queued or running
C12_VerificationAbortsMidRun ==
    /\ cmd = "V" /\ pc = "returned" /\ ~ret.ok
    /\ Len(queue) + Cardinality(active) >= 1

\* C13: guess_algorithm maps 16 to MD5, 20 to SHA1, 28 to SHA224, 32 to
\* SHA256, 48 to SHA384 and 64 to SHA512, and returns UnknownAlgorithmError
\* for every other size, 0 included.
C13_GuessAlgorithmTable ==
    (call.fn = "guess_algorithm" /\ out # NotReturned) =>
        LET n == call.hash_size
        IN  /\ n = 16 => out = Ok("MD5")
            /\ n = 20 => out = Ok("SHA1")
            /\ n = 28 => out = Ok("SHA224")
            /\ n = 32 => out = Ok("SHA256")
            /\ n = 48 => out = Ok("SHA384")
            /\ n = 64 => out = Ok("SHA512")
            /\ n \notin {16, 20, 28, 32, 48, 64} => out = Err("UnknownAlgorithmError")
            /\ out.ok => HashSize(out.val) = n

\* the size 0 has been refused and the size 64 has been answered
C13_Witness ==
    /\ call.fn = "guess_algorithm" /\ out # NotReturned
    /\ call.hash_size \in {0, 64}
    /\ (call.hash_size = 0) = ~out.ok

\* the digits '0'..'9' and 'a'..'f'
LowerHexDigits == (48..57) \cup (97..102)

\* C14: for every digest d of a supported length, the hex string generation
\* writes for d has 2 * Len(d) characters, all lowercase hex digits, and
\* str_to_bytes of it succeeds and returns d.
C14_HexRoundTrip ==
    (call.fn = "hex" /\ out # NotReturned) =>
        /\ Len(call.bytes) \in {HashSize(a) : a \in Algorithms}
        /\ Len(out.hex) = 2 * Len(call.bytes)
        /\ Range(out.hex) \subseteq LowerHexDigits
        /\ out.decoded = Ok(call.bytes)

\* a digest of 64 bytes with bytes below 16 and above 159 has made the round trip
C14_Witness ==
    /\ call.fn = "hex" /\ out # NotReturned
    /\ Len(call.bytes) = 64
    /\ \E i, j \in 1..64 : call.bytes[i] < 16 /\ call.bytes[j] > 159
    /\ out.decoded.ok

\* C15: when generation starts draining, count is the number of units it
\* gave to pool.execute, whatever entries the walk yielded, so the drain
\* loop asks for exactly one result per submitted unit.
C15_CountIsSubmitted ==
    (cmd = "G" /\ pc = "g_drain") => count = submitted

\* the walk yielded an error: the drain loop asks for more results than
\* units were submitted
C15_CountExceedsSubmitted ==
    /\ cmd = "G" /\ pc = "g_drain" /\ stderr >= 1 /\ recv = 0
    /\ count > submitted

\* the drain loop is waiting for a result of a unit that ended without
\* sending one, and no other unit is left to send
ShortOfResults ==
    /\ pc = "g_drain" \/ (pc = "v_read" /\ lines_left = <<>>)
    /\ recv < count
    /\ chan = <<>> /\ queue = <<>> /\ active = {}
    /\ \E d \in delivered : d.res = Panic

\* C17: when a unit ends without sending its result the aggregator does not
\* block for ever (it has a step to take: returning UnknownError), and
\* UnknownError is returned in no other situation.
C17_ShortfallIsReported ==
    /\ ShortOfResults => ENABLED ProgramStep
    /\ ret = Err("UnknownError") => \E d \in delivered : d.res = Panic

\* verification is blocked in rx.iter().next() after a worker died
C17_BlockedAfterWorkerDied ==
    /\ cmd = "V" /\ ShortOfResults /\ ret = NotReturned
    /\ ~ENABLED ProgramStep

\* the lines the read loop of verification has gone through
LinesRead == SubSeq(Lines(manifest), 1, Len(Lines(manifest)) - Len(lines_left))

\* C16: verification submits one unit per line of two tokens or more and
\* none for other lines; each unit that ended has sent exactly one result,
\* which is in the channel or was received once; and at a normal return
\* every submitted unit's result was received, the channel is empty and no
\* worker is running.
C16_ExactlyOnce ==
    cmd = "V" =>
        /\ pc = "v_read" =>
              /\ submitted = Len(SelectSeq(LinesRead, LAMBDA l : ~FewTokens(l)))
              /\ count = submitted
        /\ rx_alive => recv + Len(chan) = Cardinality(delivered)
        /\ (pc \in {"returned", "exit"} /\ ret.ok) =>
              /\ recv = submitted
              /\ chan = <<>> /\ queue = <<>> /\ active = {}

\* the same for the runs in which no unit has panicked
C16_ExactlyOnceUnlessUnitPanics ==
    (\A d \in delivered : d.res # Panic) => C16_ExactlyOnce

\* a unit has ended and no result of it is in the channel or was received
C16_UnitSentNothing ==
    /\ cmd = "V" /\ rx_alive
    /\ \E d \in delivered : d.res = Panic
    /\ recv + Len(chan) < Cardinality(delivered)

\* what decoding the digest and comparing it with the file's digest under
\* the algorithm gives
DecodeAndCompare(path, checksum, algorithm) ==
    LET decoded == str_to_bytes(checksum)
        calculated == calculate_checksum(fs, path, algorithm)
    IN  IF ~decoded.ok THEN decoded
        ELSE IF ~calculated.ok THEN calculated
        ELSE Ok(<<path, decoded.val = calculated.val>>)

\* C18: with an explicit algorithm verify_checksum never fails with
\* UnknownAlgorithmError, whatever the length of the digest, and its outcome
\* is that of decoding the digest and comparing it with the file's digest
\* under the explicit algorithm; without one the algorithm is inferred from
\* the digest's length.
C18_ExplicitAlgorithmIsNotGuessed ==
    (call.fn = "verify_checksum" /\ out # NotReturned) =>
        IF call.algorithm # None
        THEN /\ out # Err("UnknownAlgorithmError")
             /\ out = DecodeAndCompare(call.path, call.checksum, call.algorithm)
        ELSE LET guessed == guess_algorithm(Len(call.checksum) \div 2)
             IN  IF guessed.ok
                 THEN out = DecodeAndCompare(call.path, call.checksum, guessed.val)
                 ELSE out = guessed

\* an explicit algorithm and a digest of no supported length: the call has
\* failed with UnknownAlgorithmError
C18_GuessedDespiteExplicitAlgorithm ==
    /\ call.fn = "verify_checksum" /\ call.algorithm = "MD5"
    /\ call.path = P_ax /\ Len(call.checksum) = 4
    /\ out = Err("UnknownAlgorithmError")

\* an explicit algorithm and a digest of a supported length: the outcome is
\* that of decoding and comparing
C18_ExplicitAlgorithmUsed ==
    /\ call.fn = "verify_checksum" /\ call.algorithm = "SHA1"
    /\ call.checksum = ToHex(Digest(1, "SHA1")) /\ call.path = P_ax
    /\ out = Ok(<<P_ax, TRUE>>)

\* C19: whenever a worker executes tx.send the Receiver still exists, so
\* expect("Internal error.") never panics, also in the runs that leave the
\* pipeline function early through '?'.
C19_SendNeverPanics == ~panicked

\* a worker of generation has panicked in expect after the manifest could
\* not be opened
C19_PanicAfterOpenFailed ==
    /\ cmd = "G" /\ ret = Err("Io") /\ panicked

\* a worker of verification has panicked in expect after a line could not
\* be read
C19_PanicAfterLineFailed ==
    /\ cmd = "V" /\ ret = Err("Io") /\ panicked

\* the digest a file has under the run's algorithm with the content it had
\* when the run started
DigestAtStart(path) == Digest(InitialContent[Resolve(path)], gopts.algorithm)

\* C20: the manifest file is not created or truncated while a submitted
\* unit may still be reading (once the output is open no unit is queued or
\* running), so the digest every unit records is that of the content its
\* file had when the run started.
C20_NoReadTruncateRace ==
    cmd = "G" =>
        /\ (pc = "g_drain" /\ gopts.checksum_file # P_dash) =>
              queue = <<>> /\ active = {}
        /\ \A d \in delivered : d.res.ok => d.res.val[2] = DigestAtStart(d.job.path)

\* the manifest was opened, and so truncated, while a unit was running
C20_TruncatedUnderRunningUnit ==
    /\ cmd = "G" /\ pc = "g_drain" /\ gopts.checksum_file = P_m /\ recv = 0
    /\ active # {}

\* the unit submitted for the manifest file itself has recorded the digest
\* of the truncated file, not of the content the file had
C20_DigestOfTruncatedManifest ==
    /\ cmd = "G"
    /\ \E d \in delivered :
          /\ Resolve(d.job.path) = P_m
          /\ d.res.ok
          /\ d.res.val[2] = Digest(0, gopts.algorithm)
          /\ d.res.val[2] # DigestAtStart(d.job.path)

\* the same unit, when it read before the manifest was opened
C20_DigestOfOldManifest ==
    /\ cmd = "G"
    /\ \E d \in delivered :
          Resolve(d.job.path) = P_m /\ d.res.ok /\ d.res.val[2] = DigestAtStart(d.job.path)

====
